---- MODULE Spec2Model ----
(***************************************************************************)
(* World-cup-sim-26 data preparation pipeline.                             *)
(*                                                                         *)
(*   src/features_creator.py  FeaturesCreator: rolling team-form features  *)
(*                            (specification Spec)                         *)
(*   src/db_builder.py        the ranking join that writes                 *)
(*                            ranked_database.csv (specification SpecJoin) *)
(*                                                                         *)
(* Numbers.  pandas/numpy compute in float64; the model computes the same  *)
(* quotients exactly, as reduced fractions <<numerator, denominator>>.     *)
(* NaN is the pair <<0, 0>>.                                               *)
(*                                                                         *)
(* Dates are day numbers: day 1 is 2023-01-01, day 0 is 2022-12-31.        *)
(***************************************************************************)
EXTENDS Integers, Sequences, FiniteSets

VARIABLES
    pc,                 \* position of the __main__ script of features_creator.py
    csv,                \* rows of data/ranked_database.csv, in file order
    df,                 \* self.df
    df_with_features,   \* self.df_with_features
    team_games_log,     \* per row of df and side: the df rows that made up the side's team_games
    features_csv,       \* rows written by save_to_csv
    jpc,                \* position of the db_builder.py script
    results_csv,        \* rows of data/international_results.csv
    ranking_csv,        \* rows of data/resulting_data.csv
    jdf,                \* db_builder's df
    rank,               \* db_builder's rank
    df_ranked,          \* db_builder's df_ranked
    ranked_csv          \* rows written to data/ranked_database.csv

fvars == <<pc, csv, df, df_with_features, team_games_log, features_csv>>
jvars == <<jpc, results_csv, ranking_csv, jdf, rank, df_ranked, ranked_csv>>
vars == <<pc, csv, df, df_with_features, team_games_log, features_csv,
          jpc, results_csv, ranking_csv, jdf, rank, df_ranked, ranked_csv>>

None == "None"

\* ------------------------------------------------------------------ bounds

\* Longest table of the broad family of input tables.
MaxRows == 2
\* Longest table of the long-history family of input tables.
MaxDeep == 7

\* ------------------------------------------------------------------ numbers

NaN == <<0, 0>>

Abs(x) == IF x < 0 THEN -x ELSE x

RECURSIVE GCD(_, _)
GCD(a, b) == IF b = 0 THEN a ELSE GCD(b, a % b)

\* The quotient n / d (d > 0), reduced.
Frac(n, d) == LET g == GCD(Abs(n), d) IN <<n \div g, d \div g>>

FromInt(n) == <<n, 1>>

RAdd(x, y) == Frac(x[1] * y[2] + y[1] * x[2], x[2] * y[2])

RECURSIVE RSum(_)
RSum(s) == IF s = <<>> THEN FromInt(0) ELSE RAdd(s[1], RSum(Tail(s)))

\* np.mean of a non-empty array
np_mean(s) == LET t == RSum(s) IN Frac(t[1], t[2] * Len(s))

\* x / (1 + rank / 100)
WeightedByRank(x, opponent_rank) == Frac(100 * x, 100 + opponent_rank)

\* Mutant of LastN: the first n values, values[:n].
LastN_FirstN(s, n) == IF Len(s) <= n THEN s ELSE SubSeq(s, 1, n)

\* values[-n:]
LastN(s, n) == IF Len(s) <= n THEN s ELSE SubSeq(s, Len(s) - n + 1, Len(s))

Window3 == 3
Window5 == 5

\* ------------------------------------------------------------------ sorting

Min(S) == CHOOSE x \in S : \A y \in S : x <= y

\* DataFrame.sort_values('date') with the default kind='quicksort', which is
\* not a stable sort: rows come out in nondecreasing date order, and the
\* relative order of rows with equal dates is whatever the numpy build's
\* quicksort leaves.  SortOrdersOf(s, DOMAIN s) is the set of row orders it can
\* produce.
RECURSIVE SortOrdersOf(_, _)
SortOrdersOf(s, I) ==
    IF I = {} THEN {<<>>}
    ELSE LET d == Min({s[i].date : i \in I})
         IN UNION {{<<i>> \o t : t \in SortOrdersOf(s, I \ {i})} :
                   i \in {j \in I : s[j].date = d}}

sort_values_date(s) ==
    {[k \in 1..Len(s) |-> s[o[k]]] : o \in SortOrdersOf(s, DOMAIN s)}

\* ------------------------------------------------------------------ FeaturesCreator

\* Mutant of calculate_points_won: a draw counted as a win.
calculate_points_won_DrawWins(home_score, away_score) ==
    IF home_score >= away_score THEN 3 ELSE 0

calculate_points_won(home_score, away_score) ==
    IF home_score > away_score THEN 3
    ELSE IF home_score = away_score THEN 1
    ELSE 0

\* df[(df['home_team'] == team) & (df['date'] < current_date)] with the
\* derived columns; `row` is the row's label in df (pandas keeps it until
\* the concat).
HomeGame(d, i) ==
    [row |-> i, date |-> d[i].date,
     points_won |-> calculate_points_won(d[i].home_score, d[i].away_score),
     points_weighted |->
        WeightedByRank(calculate_points_won(d[i].home_score, d[i].away_score),
                       d[i].rank_away),
     goals |-> d[i].home_score,
     goals_suffered |-> d[i].away_score,
     goals_weighted |-> WeightedByRank(d[i].home_score, d[i].rank_away),
     goals_suffered_weighted |-> WeightedByRank(d[i].away_score, d[i].rank_away)]

\* Mutant of AwayGame: the away side's row read from the home side's view.
AwayGame_HomeView(d, i) == HomeGame(d, i)

AwayGame(d, i) ==
    [row |-> i, date |-> d[i].date,
     points_won |-> calculate_points_won(d[i].away_score, d[i].home_score),
     points_weighted |->
        WeightedByRank(calculate_points_won(d[i].away_score, d[i].home_score),
                       d[i].rank_home),
     goals |-> d[i].away_score,
     goals_suffered |-> d[i].home_score,
     goals_weighted |-> WeightedByRank(d[i].away_score, d[i].rank_home),
     goals_suffered_weighted |-> WeightedByRank(d[i].home_score, d[i].rank_home)]

\* The row labels of d, in d's order.
Index(d) == [k \in 1..Len(d) |-> k]

\* Mutant of IsBefore: the cutoff taken as "on or before".
IsBefore_OnOrBefore(date, current_date) == date <= current_date

\* df['date'] < current_date
IsBefore(date, current_date) == date < current_date

home_games(d, team, current_date) ==
    LET keep(i) == d[i].home_team = team /\ IsBefore(d[i].date, current_date)
        idx == SelectSeq(Index(d), keep)
    IN [k \in 1..Len(idx) |-> HomeGame(d, idx[k])]

away_games(d, team, current_date) ==
    LET keep(i) == d[i].away_team = team /\ IsBefore(d[i].date, current_date)
        idx == SelectSeq(Index(d), keep)
    IN [k \in 1..Len(idx) |-> AwayGame(d, idx[k])]

\* Mutant of get_team_games_before_date: the away games left out.
get_team_games_before_date_HomeOnly(d, team, current_date) ==
    sort_values_date(home_games(d, team, current_date))

\* The team_games frames _get_team_games_before_date can return: home games
\* then away games, sorted by date.
get_team_games_before_date(d, team, current_date) ==
    sort_values_date(home_games(d, team, current_date)
                     \o away_games(d, team, current_date))

Column(team_games, c) == [k \in 1..Len(team_games) |-> team_games[k][c]]

IntColumn(team_games, c) == [k \in 1..Len(team_games) |-> FromInt(team_games[k][c])]

NaNFeatures ==
    [points_won_ma_5 |-> NaN, points_won_ma_3 |-> NaN,
     points_weighted_ma_5 |-> NaN, points_weighted_ma_3 |-> NaN,
     goals_ma_5 |-> NaN, goals_ma_3 |-> NaN,
     goals_suffered_ma_5 |-> NaN, goals_suffered_ma_3 |-> NaN,
     goals_weighted_ma_5 |-> NaN, goals_weighted_ma_3 |-> NaN,
     goals_suffered_weighted_ma_5 |-> NaN, goals_suffered_weighted_ma_3 |-> NaN]

\* The else branch of _calculate_team_features_at_date: the moving averages
\* of a non-empty team_games.
MovingAverages(team_games) ==
    LET points_won == IntColumn(team_games, "points_won")
        points_weighted == Column(team_games, "points_weighted")
        goals == IntColumn(team_games, "goals")
        goals_suffered == IntColumn(team_games, "goals_suffered")
        goals_weighted == Column(team_games, "goals_weighted")
        goals_suffered_weighted == Column(team_games, "goals_suffered_weighted")
    IN [points_won_ma_5 |-> np_mean(LastN(points_won, Window5)),
        points_won_ma_3 |-> np_mean(LastN(points_won, Window3)),
        points_weighted_ma_5 |-> np_mean(LastN(points_weighted, Window5)),
        points_weighted_ma_3 |-> np_mean(LastN(points_weighted, Window3)),
        goals_ma_5 |-> np_mean(LastN(goals, Window5)),
        goals_ma_3 |-> np_mean(LastN(goals, Window3)),
        goals_suffered_ma_5 |-> np_mean(LastN(goals_suffered, Window5)),
        goals_suffered_ma_3 |-> np_mean(LastN(goals_suffered, Window3)),
        goals_weighted_ma_5 |-> np_mean(LastN(goals_weighted, Window5)),
        goals_weighted_ma_3 |-> np_mean(LastN(goals_weighted, Window3)),
        goals_suffered_weighted_ma_5 |->
            np_mean(LastN(goals_suffered_weighted, Window5)),
        goals_suffered_weighted_ma_3 |->
            np_mean(LastN(goals_suffered_weighted, Window3))]

\* Mutant of FeaturesOf: no prior games filled with 0 instead of NaN.
FeaturesOf_ZeroFill(team_games) ==
    IF Len(team_games) = 0 THEN [c \in DOMAIN NaNFeatures |-> FromInt(0)]
    ELSE MovingAverages(team_games)

\* The features dictionary _calculate_team_features_at_date builds from team_games.
FeaturesOf(team_games) ==
    IF Len(team_games) = 0 THEN NaNFeatures
    ELSE MovingAverages(team_games)

\* The df rows a team_games frame was built from.
RowsOf(team_games) == {team_games[k].row : k \in 1..Len(team_games)}

\* What _calculate_team_features_at_date can return, each paired with the
\* df rows of the team_games it was computed from.
calculate_team_features_at_date(d, team, current_date) ==
    {[rows |-> RowsOf(g), features |-> FeaturesOf(g)] :
        g \in get_team_games_before_date(d, team, current_date)}

\* One iteration of the loop of _add_all_moving_averages_efficient: the
\* row_features it can append for row i.
row_features(d, i) ==
    {[home |-> h, away |-> a] :
        h \in calculate_team_features_at_date(d, d[i].home_team, d[i].date),
        a \in calculate_team_features_at_date(d, d[i].away_team, d[i].date)}

\* The features_list the loop can build over rows 1..n.
RECURSIVE features_lists(_, _)
features_lists(d, n) ==
    IF n = 0 THEN {<<>>}
    ELSE {Append(l, f) : l \in features_lists(d, n - 1), f \in row_features(d, n)}

\* The basic columns create_all_features adds to a row.
BasicColumns(r) ==
    [home_points_won |-> calculate_points_won(r.home_score, r.away_score),
     away_points_won |-> calculate_points_won(r.away_score, r.home_score),
     home_points_weighted |->
        WeightedByRank(calculate_points_won(r.home_score, r.away_score), r.rank_away),
     away_points_weighted |->
        WeightedByRank(calculate_points_won(r.away_score, r.home_score), r.rank_home),
     rank_dif |-> r.rank_home - r.rank_away]

\* pd.concat([df, features_df], axis=1): row k of df beside entry k of features_list.
ConcatColumns(d, fl) ==
    [k \in 1..Len(d) |->
        [match |-> d[k], basic |-> BasicColumns(d[k]),
         home |-> fl[k].home.features, away |-> fl[k].away.features]]

\* ------------------------------------------------------------------ inputs

Teams == {"A", "B", "C", "D"}

\* The ranking position carried by each team's rows.
RankOf ==
    [t \in Teams |-> CASE t = "A" -> 25 [] t = "B" -> 50 [] t = "C" -> 100 [] OTHER -> 150]

Fixtures == {<<"A", "B">>, <<"C", "A">>, <<"B", "C">>, <<"C", "D">>}

ScoreLines == <<<<1, 0>>, <<2, 2>>, <<0, 3>>>>

MatchRecord(date, fixture, score) ==
    [date |-> date, home_team |-> fixture[1], away_team |-> fixture[2],
     home_score |-> score[1], away_score |-> score[2],
     rank_home |-> RankOf[fixture[1]], rank_away |-> RankOf[fixture[2]]]

\* The date columns of the broad family: day 1 first, each later row on the
\* same day as the row before it or on the next day.
RECURSIVE DateColumns(_)
DateColumns(n) ==
    IF n = 1 THEN {<<1>>}
    ELSE {Append(c, c[n - 1] + s) : c \in DateColumns(n - 1), s \in {0, 1}}

Reverse(s) == [k \in 1..Len(s) |-> s[Len(s) + 1 - k]]

\* Broad family: every table of 1..MaxRows rows over Fixtures and ScoreLines
\* with a date column of DateColumns, in chronological file order or in
\* reverse file order.
BroadTables ==
    UNION {
      UNION {
        LET sorted == {[k \in 1..n |-> MatchRecord(c[k], f[k], ScoreLines[x[k]])] :
                          f \in [1..n -> Fixtures], x \in [1..n -> DOMAIN ScoreLines]}
        IN sorted \cup {Reverse(t) : t \in sorted}
        : c \in DateColumns(n)}
      : n \in 1..MaxRows}

\* Long-history family: team A plays every row, at home to B or away at C;
\* row k is played on day k, except that one row may share the day of the
\* row before it; the score lines cycle with the row number.
DeepTables ==
    UNION {
      {[k \in 1..n |->
          MatchRecord(IF dbl # 0 /\ k > dbl THEN k - 1 ELSE k,
                      IF atHome[k] THEN <<"A", "B">> ELSE <<"C", "A">>,
                      ScoreLines[(k % Len(ScoreLines)) + 1])] :
          atHome \in [1..n -> BOOLEAN], dbl \in 0..(n - 1)}
      : n \in (MaxRows + 1)..MaxDeep}

\* ------------------------------------------------------------------ actions

JoinIdle ==
    /\ jpc = "idle" /\ results_csv = <<>> /\ ranking_csv = <<>>
    /\ jdf = None /\ rank = None /\ df_ranked = None /\ ranked_csv = None

Init ==
    /\ pc = "start"
    /\ csv \in BroadTables \cup DeepTables
    /\ df = None
    /\ df_with_features = None
    /\ team_games_log = None
    /\ features_csv = None
    /\ JoinIdle

\* FeaturesCreator.__init__: read the file, parse the dates, sort by date.
FeaturesCreator_init ==
    /\ pc = "start"
    /\ df' \in sort_values_date(csv)
    /\ df_with_features' = None
    /\ pc' = "constructed"
    /\ UNCHANGED <<csv, team_games_log, features_csv>>
    /\ UNCHANGED jvars

\* FeaturesCreator.create_all_features
create_all_features ==
    /\ pc = "constructed"
    /\ \E fl \in features_lists(df, Len(df)) :
          /\ df_with_features' = ConcatColumns(df, fl)
          /\ team_games_log' =
                [k \in 1..Len(df) |-> [home |-> fl[k].home.rows,
                                       away |-> fl[k].away.rows]]
    /\ pc' = "created"
    /\ UNCHANGED <<csv, df, features_csv>>
    /\ UNCHANGED jvars

\* FeaturesCreator.save_to_csv
save_to_csv ==
    /\ pc = "created"
    /\ features_csv' = df_with_features
    /\ pc' = "done"
    /\ UNCHANGED <<csv, df, df_with_features, team_games_log>>
    /\ UNCHANGED jvars

Next == FeaturesCreator_init \/ create_all_features \/ save_to_csv

Spec == Init /\ [][Next]_vars

\* ------------------------------------------------------------------ db_builder.py

\* 2023-01-01, as a day number.
Cutoff == 1

\* Latest day of the input tables of the join.
MaxDay == 3

\* Series.str.replace(pat, repl) on the names of the ranking table; none of
\* the names of the model holds pat as a proper part, so a name is changed
\* exactly when it is pat.
str_replace(name, pat, repl) == IF name = pat THEN repl ELSE name

\* The chain of replacements of line 17.
NormalizeName(name) ==
    str_replace(
        str_replace(
            str_replace(
                str_replace(name, "Czechia", "Czech Republic"),
                "IR Iran", "Iran"),
            "Korea Republic", "South Korea"),
        "USA", "United States")

\* df = df[df["date"] >= "2023-1-1"].reset_index(drop=True)
FilterResults(t) == LET keep(r) == r.date >= Cutoff IN SelectSeq(t, keep)

\* rank = rank[rank["rank_date"] >= "2023-1-1"], then the names normalised
FilterRank(t) ==
    LET keep(r) == r.rank_date >= Cutoff
        kept == SelectSeq(t, keep)
    IN [k \in 1..Len(kept) |->
           [kept[k] EXCEPT !.nation_full_name = NormalizeName(@)]]

\* The group keys of groupby(['nation_full_name']), in sorted order.
NameOrder == <<"Brazil", "Cabo Verde", "Cape Verde", "Czech Republic", "IR Iran", "Iran">>

Max(S) == CHOOSE x \in S : \A y \in S : x >= y

\* A cell of the resampled frame: <<v>> holds the value v, <<>> is a null.
Cell(v) == <<v>>
Null == <<>>

NullRow(day) ==
    [rank_date |-> day, nation_full_name |-> Null, rank |-> Null, points |-> Null]

\* resample('D').first() of one group: one row per day from the group's
\* first snapshot day to its last; a day with snapshots takes the first of
\* them in table order, a day without gets nulls.
ResampleGroup(t, name) ==
    LET own(r) == r.nation_full_name = name
        g == SelectSeq(t, own)
        days == {g[k].rank_date : k \in 1..Len(g)}
        lo == Min(days)
        hi == Max(days)
    IN IF g = <<>> THEN <<>>
       ELSE [k \in 1..(hi - lo + 1) |->
               LET day == lo + k - 1
                   at == {i \in 1..Len(g) : g[i].rank_date = day}
               IN IF at = {} THEN NullRow(day)
                  ELSE [rank_date |-> day,
                        nation_full_name |-> Cell(g[Min(at)].nation_full_name),
                        rank |-> Cell(g[Min(at)].rank),
                        points |-> Cell(g[Min(at)].points)]]

\* The groups' frames one after another, in key order.
RECURSIVE ResampleFrom(_, _)
ResampleFrom(t, n) ==
    IF n > Len(NameOrder) THEN <<>>
    ELSE ResampleGroup(t, NameOrder[n]) \o ResampleFrom(t, n + 1)

\* Every group's resampled frame has the group's own index: the group's rows
\* are dated on consecutive days, one row a day, in date order.
IndexedLikeGroups(t) ==
    \A n \in DOMAIN NameOrder :
        LET own(r) == r.nation_full_name = NameOrder[n]
            g == SelectSeq(t, own)
        IN \A k \in 1..Len(g) : g[k].rank_date = g[1].rank_date + k - 1

\* The rank_date labels of a frame, in row order.
IndexOf(f) == [k \in 1..Len(f) |-> f[k].rank_date]

HasDuplicates(s) == \E i, j \in DOMAIN s : i # j /\ s[i] = s[j]

\* The labels of s in order of first appearance.
RECURSIVE unique1d(_)
unique1d(s) ==
    IF s = <<>> THEN <<>>
    ELSE LET front == unique1d(SubSeq(s, 1, Len(s) - 1))
             last == s[Len(s)]
         IN IF \E k \in DOMAIN front : front[k] = last THEN front
            ELSE Append(front, last)

\* For each label of target in turn, the rows of frame with that label, in
\* the frame's order.
RECURSIVE TakeByLabel(_, _, _)
TakeByLabel(frame, target, n) ==
    IF n > Len(target) THEN <<>>
    ELSE LET labelled(r) == r.rank_date = target[n]
         IN SelectSeq(frame, labelled) \o TakeByLabel(frame, target, n + 1)

\* pandas 2.x, every group's frame indexed like the group: the concatenated
\* frame is put back in the table's order as far as the labels tell.  When
\* the table's labels repeat and differ from the frame's, the dates come in
\* order of first appearance in the table and, within a date, the groups stay
\* in key order; otherwise the frame is reindexed by the table's labels.
RestoreOrder(t, frame) ==
    IF HasDuplicates(IndexOf(t)) /\ IndexOf(frame) # IndexOf(t)
    THEN TakeByLabel(frame, unique1d(IndexOf(t)), 1)
    ELSE IF IndexOf(frame) = IndexOf(t) THEN frame
    ELSE TakeByLabel(frame, IndexOf(t), 1)

\* The frames groupby(..., group_keys=False).resample('D').first() can
\* return.  The rows are the same in every pandas version; their order is
\* not.  pandas 1.x puts the groups one after another in key order.  pandas
\* 2.x does the same when some group's frame is not indexed like the group
\* (a day without a snapshot, or two snapshots on a day), and otherwise
\* restores the order of the table's labels.
ResampleFrames(t) ==
    {ResampleFrom(t, 1)}
        \cup (IF IndexedLikeGroups(t)
              THEN {RestoreOrder(t, ResampleFrom(t, 1))} ELSE {})

FillFrom(cell, previous) == IF cell = Null THEN previous ELSE cell

\* DataFrame.ffill() on the whole resampled frame: down each column, a null
\* takes the value of the row above (rank_date is the index and is not filled).
RECURSIVE FfillUpTo(_, _)
FfillUpTo(frame, n) ==
    IF n = 0 THEN <<>>
    ELSE LET above == FfillUpTo(frame, n - 1)
         IN Append(above,
                IF n = 1 THEN frame[1]
                ELSE [rank_date |-> frame[n].rank_date,
                      nation_full_name |->
                          FillFrom(frame[n].nation_full_name, above[n - 1].nation_full_name),
                      rank |-> FillFrom(frame[n].rank, above[n - 1].rank),
                      points |-> FillFrom(frame[n].points, above[n - 1].points)])

\* Mutant of ffill: nulls filled from the row below (bfill).
ffill_Backward(frame) ==
    LET n == Len(frame)
        down == [k \in 1..n |-> frame[n + 1 - k]]
        filled == FfillUpTo(down, n)
    IN [k \in 1..n |-> filled[n + 1 - k]]

ffill(frame) == FfillUpTo(frame, Len(frame))

\* Line 19: group by name, resample to days, first(), ffill(), reset_index():
\* the frames it can leave in rank.
ResampleDaily(t) == {ffill(f) : f \in ResampleFrames(t)}

\* df.merge(rank, left_on=["date", "home_team"], right_on=["rank_date",
\* "nation_full_name"]): an inner join, left rows in order, each with the
\* rank rows of its key.
RECURSIVE MergeHome(_, _)
MergeHome(left, right) ==
    IF left = <<>> THEN <<>>
    ELSE LET l == left[1]
             key(r) == r.rank_date = l.date /\ r.nation_full_name = Cell(l.home_team)
             hits == SelectSeq(right, key)
         IN [k \in 1..Len(hits) |->
                [line |-> l.line, date |-> l.date,
                 home_team |-> l.home_team, away_team |-> l.away_team,
                 rank |-> hits[k].rank[1], points |-> hits[k].points[1]]]
            \o MergeHome(Tail(left), right)

\* The second merge, on ["date", "away_team"], with suffixes _home and _away.
RECURSIVE MergeAway(_, _)
MergeAway(left, right) ==
    IF left = <<>> THEN <<>>
    ELSE LET l == left[1]
             key(r) == r.rank_date = l.date /\ r.nation_full_name = Cell(l.away_team)
             hits == SelectSeq(right, key)
         IN [k \in 1..Len(hits) |->
                [line |-> l.line, date |-> l.date,
                 home_team |-> l.home_team, away_team |-> l.away_team,
                 rank_home |-> l.rank, points_home |-> l.points,
                 rank_away |-> hits[k].rank[1], points_away |-> hits[k].points[1]]]
            \o MergeAway(Tail(left), right)

\* ------------------------------------------------------------------ inputs of the join

\* The match table: on every day 0..MaxDay, Brazil v Iran and Cape Verde v
\* Brazil, in date order; `line` is the row's line in the file and stands
\* for the columns the join passes through.
ResultsTable ==
    [k \in 1..(2 * (MaxDay + 1)) |->
        [line |-> k, date |-> (k - 1) \div 2,
         home_team |-> IF k % 2 = 1 THEN "Brazil" ELSE "Cape Verde",
         away_team |-> IF k % 2 = 1 THEN "Iran" ELSE "Brazil"]]

\* The snapshot of series n (of 3) published on a day.
Snapshot(name, n, day) ==
    [rank |-> 10 * day + n, nation_full_name |-> name,
     points |-> 2000 - (10 * day + n), rank_date |-> day]

\* A ranking table: Brazil and IR Iran each publish on a chosen set of days,
\* a third nation, named Cabo Verde or Cape Verde, on every day; rows in
\* date order.
RECURSIVE RankingRows(_, _, _, _)
RankingRows(brazil, iran, third, day) ==
    IF day > MaxDay THEN <<>>
    ELSE (IF day \in brazil THEN <<Snapshot("Brazil", 1, day)>> ELSE <<>>)
         \o (IF day \in iran THEN <<Snapshot("IR Iran", 2, day)>> ELSE <<>>)
         \o <<Snapshot(third, 3, day)>>
         \o RankingRows(brazil, iran, third, day + 1)

RankingTables ==
    {RankingRows(b, i, t, 0) :
        b \in SUBSET (0..MaxDay), i \in SUBSET (0..MaxDay), t \in {"Cabo Verde", "Cape Verde"}}

\* ------------------------------------------------------------------ actions of the join

FeaturesIdle ==
    /\ pc = "idle" /\ csv = <<>> /\ df = None /\ df_with_features = None
    /\ team_games_log = None /\ features_csv = None

InitJoin ==
    /\ jpc = "start"
    /\ results_csv = ResultsTable
    /\ ranking_csv \in RankingTables
    /\ jdf = None
    /\ rank = None
    /\ df_ranked = None
    /\ ranked_csv = None
    /\ FeaturesIdle

\* Lines 5-9
read_results ==
    /\ jpc = "start"
    /\ jdf' = FilterResults(results_csv)
    /\ jpc' = "results_read"
    /\ UNCHANGED <<results_csv, ranking_csv, rank, df_ranked, ranked_csv>>
    /\ UNCHANGED fvars

\* Lines 11-17
read_rank ==
    /\ jpc = "results_read"
    /\ rank' = FilterRank(ranking_csv)
    /\ jpc' = "rank_read"
    /\ UNCHANGED <<results_csv, ranking_csv, jdf, df_ranked, ranked_csv>>
    /\ UNCHANGED fvars

\* Line 19
resample_rank ==
    /\ jpc = "rank_read"
    /\ rank' \in ResampleDaily(rank)
    /\ jpc' = "resampled"
    /\ UNCHANGED <<results_csv, ranking_csv, jdf, df_ranked, ranked_csv>>
    /\ UNCHANGED fvars

\* Line 21
merge_home ==
    /\ jpc = "resampled"
    /\ df_ranked' = MergeHome(jdf, rank)
    /\ jpc' = "merged_home"
    /\ UNCHANGED <<results_csv, ranking_csv, jdf, rank, ranked_csv>>
    /\ UNCHANGED fvars

\* Line 23
merge_away ==
    /\ jpc = "merged_home"
    /\ df_ranked' = MergeAway(df_ranked, rank)
    /\ jpc' = "merged_away"
    /\ UNCHANGED <<results_csv, ranking_csv, jdf, rank, ranked_csv>>
    /\ UNCHANGED fvars

\* Line 25
write_ranked ==
    /\ jpc = "merged_away"
    /\ ranked_csv' = df_ranked
    /\ jpc' = "written"
    /\ UNCHANGED <<results_csv, ranking_csv, jdf, rank, df_ranked>>
    /\ UNCHANGED fvars

NextJoin ==
    read_results \/ read_rank \/ resample_rank \/ merge_home \/ merge_away \/ write_ranked

SpecJoin == InitJoin /\ [][NextJoin]_vars

\* ------------------------------------------------------------------ claims: vocabulary

Sides == {"home", "away"}

\* create_all_features has returned (save_to_csv changes none of its results).
Computed == pc = "created"

TeamOf(r, side) == IF side = "home" THEN r.home_team ELSE r.away_team

Plays(d, i, team) == d[i].home_team = team \/ d[i].away_team = team

\* The rows of d in which team played on a strictly earlier date.
PriorRows(d, team, date) == {i \in DOMAIN d : Plays(d, i, team) /\ d[i].date < date}

\* The role-normalised view of row i of d for team X (TeamMatchOutcome).
GoalsFor(d, i, X) == IF d[i].home_team = X THEN d[i].home_score ELSE d[i].away_score
GoalsAgainst(d, i, X) == IF d[i].home_team = X THEN d[i].away_score ELSE d[i].home_score
OpponentRank(d, i, X) == IF d[i].home_team = X THEN d[i].rank_away ELSE d[i].rank_home
PointsWon(d, i, X) ==
    IF GoalsFor(d, i, X) > GoalsAgainst(d, i, X) THEN 3
    ELSE IF GoalsFor(d, i, X) = GoalsAgainst(d, i, X) THEN 1 ELSE 0

Metric(d, i, X, m) ==
    CASE m = "points_won" -> FromInt(PointsWon(d, i, X))
      [] m = "points_weighted" -> Frac(100 * PointsWon(d, i, X), 100 + OpponentRank(d, i, X))
      [] m = "goals" -> FromInt(GoalsFor(d, i, X))
      [] m = "goals_suffered" -> FromInt(GoalsAgainst(d, i, X))
      [] m = "goals_weighted" -> Frac(100 * GoalsFor(d, i, X), 100 + OpponentRank(d, i, X))
      [] OTHER -> Frac(100 * GoalsAgainst(d, i, X), 100 + OpponentRank(d, i, X))

RECURSIVE SumOver(_, _, _, _)
SumOver(d, S, X, m) ==
    IF S = {} THEN FromInt(0)
    ELSE LET i == CHOOSE j \in S : TRUE
         IN RAdd(Metric(d, i, X, m), SumOver(d, S \ {i}, X, m))

MeanOver(d, S, X, m) ==
    LET t == SumOver(d, S, X, m) IN Frac(t[1], t[2] * Cardinality(S))

\* S is a choice of the n chronologically most recent rows of P.
MostRecent(d, S, P, n) ==
    /\ S \subseteq P
    /\ Cardinality(S) = (IF Cardinality(P) < n THEN Cardinality(P) ELSE n)
    /\ \A i \in S, j \in P \ S : d[j].date <= d[i].date

MA3 == [points_won |-> "points_won_ma_3", points_weighted |-> "points_weighted_ma_3",
        goals |-> "goals_ma_3", goals_suffered |-> "goals_suffered_ma_3",
        goals_weighted |-> "goals_weighted_ma_3",
        goals_suffered_weighted |-> "goals_suffered_weighted_ma_3"]

MA5 == [points_won |-> "points_won_ma_5", points_weighted |-> "points_weighted_ma_5",
        goals |-> "goals_ma_5", goals_suffered |-> "goals_suffered_ma_5",
        goals_weighted |-> "goals_weighted_ma_5",
        goals_suffered_weighted |-> "goals_suffered_weighted_ma_5"]

\* ------------------------------------------------------------------ claims

\* C1: for every row and side, the team_games behind the side's rolling
\* values hold only rows dated strictly before the row, and the values are
\* ones the engine computes from the table cut down to those earlier rows:
\* no row dated on or after the match contributes.
C1_NoLookahead ==
    Computed =>
        \A k \in DOMAIN df : \A side \in Sides :
            /\ \A i \in team_games_log[k][side] : df[i].date < df[k].date
            /\ k \notin team_games_log[k][side]
            /\ LET earlier(r) == r.date < df[k].date
               IN df_with_features[k][side] \in
                     {c.features : c \in calculate_team_features_at_date(
                         SelectSeq(df, earlier), TeamOf(df[k], side), df[k].date)}

\* C1 witness: a computed row whose team has an earlier match (used), a
\* same-day match and a later match (both left out).
C1_Witness ==
    /\ Computed
    /\ \E k \in DOMAIN df : \E side \in Sides :
          LET X == TeamOf(df[k], side)
          IN /\ team_games_log[k][side] # {}
             /\ \E i \in DOMAIN df : i # k /\ Plays(df, i, X) /\ df[i].date = df[k].date
             /\ \E i \in DOMAIN df : Plays(df, i, X) /\ df[i].date > df[k].date

\* The df rows behind team X's rolling values in row k.
LogOf(k, X) ==
    IF df[k].home_team = X THEN team_games_log[k].home ELSE team_games_log[k].away

\* Rows i and j are two matches of team X on one date.
SameDayPair(i, j, X) ==
    /\ i # j
    /\ Plays(df, i, X) /\ Plays(df, j, X)
    /\ df[i].date = df[j].date

\* C2: when team X plays two matches on one date, X's history in either of
\* them holds neither of the two, and X's history in every match it plays
\* on a later date holds both.
C2_SameDayIsolation ==
    Computed =>
        \A i, j \in DOMAIN df : \A X \in {df[i].home_team, df[i].away_team} :
            SameDayPair(i, j, X) =>
                /\ i \notin LogOf(i, X) /\ j \notin LogOf(i, X)
                /\ i \notin LogOf(j, X) /\ j \notin LogOf(j, X)
                /\ \A k \in DOMAIN df :
                      (Plays(df, k, X) /\ df[k].date > df[i].date) =>
                          {i, j} \subseteq LogOf(k, X)

\* C2 witness: team X plays two matches on one date, once at home and once
\* away, and another on a later date; the file lists the same-day pair in
\* the order opposite to df's.
C2_Witness ==
    /\ Computed
    /\ \E i, j, k \in DOMAIN df : \E X \in {df[i].home_team, df[i].away_team} :
          /\ SameDayPair(i, j, X)
          /\ i < j
          /\ df[i].home_team = X /\ df[j].away_team = X
          /\ Plays(df, k, X) /\ df[k].date > df[i].date
          /\ \E a, b \in DOMAIN csv : a > b /\ csv[a] = df[i] /\ csv[b] = df[j]
                                      /\ csv[a] # csv[b]

\* The six rolling values of window n in f are the means over the rows S,
\* seen from team X.
WindowIsMeanOver(f, names, S, X) ==
    \A m \in DOMAIN names : f[names[m]] = MeanOver(df, S, X, m)

\* C3: for a team with k >= 1 prior matches, the six *_ma_3 values are the
\* means over a choice of the min(k, 3) chronologically most recent prior
\* matches, seen from the team's side, and the six *_ma_5 values the means
\* over the min(k, 5) most recent.
C3_RollingMean ==
    Computed =>
        \A k \in DOMAIN df : \A side \in Sides :
            LET X == TeamOf(df[k], side)
                P == PriorRows(df, X, df[k].date)
                f == df_with_features[k][side]
            IN P # {} =>
                 /\ \E S \in SUBSET P :
                       MostRecent(df, S, P, 3) /\ WindowIsMeanOver(f, MA3, S, X)
                 /\ \E S \in SUBSET P :
                       MostRecent(df, S, P, 5) /\ WindowIsMeanOver(f, MA5, S, X)

\* C3 witness: one table in which a team has exactly 3 prior matches with
\* goals 1, 2 and 3 and both goals means are 2, and in which a team has more
\* than 5 prior matches and its 3- and 5-match means differ from each other
\* and from the mean over all its prior matches.
C3_Witness ==
    /\ Computed
    /\ \E k \in DOMAIN df : \E side \in Sides :
          LET X == TeamOf(df[k], side)
              P == PriorRows(df, X, df[k].date)
          IN /\ Cardinality(P) = 3
             /\ {GoalsFor(df, i, X) : i \in P} = {1, 2, 3}
             /\ df_with_features[k][side].goals_ma_3 = FromInt(2)
             /\ df_with_features[k][side].goals_ma_5 = FromInt(2)
    /\ \E k \in DOMAIN df : \E side \in Sides :
          LET X == TeamOf(df[k], side)
              P == PriorRows(df, X, df[k].date)
              f == df_with_features[k][side]
          IN /\ Cardinality(P) > 5
             /\ f.goals_ma_5 # MeanOver(df, P, X, "goals")
             /\ f.goals_ma_3 # f.goals_ma_5

\* C4: a team with no match on a strictly earlier date gets all 12 rolling
\* values undefined, in a row that is produced like any other and whose own
\* points_won and points_weighted columns are defined.
C4_FirstAppearanceNaN ==
    Computed =>
        /\ Len(df_with_features) = Len(df)
        /\ \A k \in DOMAIN df : \A side \in Sides :
              LET f == df_with_features[k][side]
                  b == df_with_features[k].basic
              IN PriorRows(df, TeamOf(df[k], side), df[k].date) = {} =>
                   /\ Cardinality(DOMAIN f) = 12
                   /\ \A c \in DOMAIN f : f[c] = NaN
                   /\ b.home_points_won \in {0, 1, 3}
                   /\ b.away_points_won \in {0, 1, 3}
                   /\ b.home_points_weighted # NaN /\ b.home_points_weighted[2] > 0
                   /\ b.away_points_weighted # NaN /\ b.away_points_weighted[2] > 0

\* C4 witness: a team plays two matches on its first date and one later;
\* the first two rows are all-NaN for it and the later one is not.
C4_Witness ==
    /\ Computed
    /\ \E i, j, k \in DOMAIN df : \E X \in {df[i].home_team, df[i].away_team} :
          /\ SameDayPair(i, j, X)
          /\ PriorRows(df, X, df[i].date) = {}
          /\ \A c \in DOMAIN NaNFeatures :
                /\ df_with_features[i][IF df[i].home_team = X THEN "home" ELSE "away"][c] = NaN
                /\ df_with_features[j][IF df[j].home_team = X THEN "home" ELSE "away"][c] = NaN
          /\ Plays(df, k, X) /\ df[k].date > df[i].date
          /\ df_with_features[k][IF df[k].home_team = X THEN "home" ELSE "away"].goals_ma_3 # NaN

\* C6: every row's (home_points_won, away_points_won) is (3,0) when the home
\* side scored more, (0,3) when it scored less and (1,1) when the scores are
\* equal.
C6_PointsPair ==
    Computed =>
        \A k \in DOMAIN df_with_features :
            LET r == df_with_features[k]
                pair == <<r.basic.home_points_won, r.basic.away_points_won>>
            IN /\ r.match.home_score > r.match.away_score => pair = <<3, 0>>
               /\ r.match.home_score < r.match.away_score => pair = <<0, 3>>
               /\ r.match.home_score = r.match.away_score => pair = <<1, 1>>

\* C6 witness: one table with a home win, an away win and a draw.
C6_Witness ==
    /\ Computed
    /\ \E a, b, c \in DOMAIN df_with_features :
          /\ df_with_features[a].match.home_score > df_with_features[a].match.away_score
          /\ df_with_features[a].basic.home_points_won = 3
          /\ df_with_features[b].match.home_score < df_with_features[b].match.away_score
          /\ df_with_features[b].basic.away_points_won = 3
          /\ df_with_features[c].match.home_score = df_with_features[c].match.away_score
          /\ df_with_features[c].basic.home_points_won = 1

IsChronological(t) == \A a, b \in DOMAIN t : a < b => t[a].date <= t[b].date

\* C5: for a chronologically sorted file, the output has one row per input
\* row and its i-th row carries the i-th input match, rows sharing a date
\* in the order of the file.
C5_SameOrder ==
    (Computed /\ IsChronological(csv)) =>
        /\ Len(df_with_features) = Len(csv)
        /\ \A k \in DOMAIN csv : df_with_features[k].match = csv[k]

\* ------------------------------------------------------------------ the buffered engine

\* The engine of the design notes: per team a bounded ordered buffer of its
\* most recent outcomes, queried for a match's features before the match is
\* appended, updated after each match is processed.
BufferCap == Window5

\* The role-normalised outcome of row i of d for team X, as a buffer entry.
Outcome(d, i, X) ==
    [row |-> i, date |-> d[i].date,
     points_won |-> PointsWon(d, i, X),
     points_weighted |-> Metric(d, i, X, "points_weighted"),
     goals |-> GoalsFor(d, i, X),
     goals_suffered |-> GoalsAgainst(d, i, X),
     goals_weighted |-> Metric(d, i, X, "goals_weighted"),
     goals_suffered_weighted |-> Metric(d, i, X, "goals_suffered_weighted")]

Push(buffer, outcome) == LastN(Append(buffer, outcome), BufferCap)

RECURSIVE BufferRun(_, _, _, _)
BufferRun(d, k, buf, out) ==
    IF k > Len(d) THEN out
    ELSE LET h == d[k].home_team
             a == d[k].away_team
             row == [home |-> FeaturesOf(buf[h]), away |-> FeaturesOf(buf[a])]
             buf1 == [buf EXCEPT ![h] = Push(@, Outcome(d, k, h))]
             buf2 == [buf1 EXCEPT ![a] = Push(@, Outcome(d, k, a))]
         IN BufferRun(d, k + 1, buf2, Append(out, row))

BufferEngine(d) == BufferRun(d, 1, [t \in Teams |-> <<>>], <<>>)

SameAsBufferEngine ==
    LET b == BufferEngine(df)
    IN \A k \in DOMAIN df : \A side \in Sides : df_with_features[k][side] = b[k][side]

NoDoubleHeader(d) ==
    \A i, j \in DOMAIN d : \A X \in Teams :
        ~(i # j /\ Plays(d, i, X) /\ Plays(d, j, X) /\ d[i].date = d[j].date)

\* C7 as stated: on every sorted table the buffered engine and the rescan
\* give the same rolling values, tables in which a team plays twice on one
\* date included.
C7_BufferEquivalent == Computed => SameAsBufferEngine

\* C7 amended: on every sorted table in which no team plays more than one
\* match on the same date, the buffered engine and the rescan give the same
\* rolling values.
C7_BufferEquivalentNoDoubleHeader ==
    (Computed /\ NoDoubleHeader(df)) => SameAsBufferEngine

\* C7 witness: no team plays twice on a date, and a team has more than 5
\* prior matches, so its buffer has dropped an outcome the rescan still reads.
C7_Witness ==
    /\ Computed
    /\ NoDoubleHeader(df)
    /\ SameAsBufferEngine
    /\ \E k \in DOMAIN df : \E side \in Sides :
          /\ Cardinality(PriorRows(df, TeamOf(df[k], side), df[k].date)) > BufferCap
          /\ df_with_features[k][side].goals_ma_5 # NaN

\* ------------------------------------------------------------------ claims of the join

Joined == jpc \in {"merged_away", "written"}

\* The days on which the ranking table, cut at 2023-01-01 and with its names
\* normalised, has a snapshot of a team.
SnapshotDays(team) ==
    {ranking_csv[k].rank_date : k \in
        {i \in DOMAIN ranking_csv :
            /\ NormalizeName(ranking_csv[i].nation_full_name) = team
            /\ ranking_csv[i].rank_date >= Cutoff}}

HasSnapshotOnOrBefore(team, date) == \E d \in SnapshotDays(team) : d <= date

RecordsOf(m) == {k \in DOMAIN df_ranked : df_ranked[k].line = m.line}

\* C8: the join yields exactly one record for a match when both its teams
\* have a snapshot dated on or before the match date, and none otherwise.
C8_KeptIffSnapshotBefore ==
    Joined =>
        \A i \in DOMAIN jdf :
            LET m == jdf[i]
            IN IF HasSnapshotOnOrBefore(m.home_team, m.date)
                  /\ HasSnapshotOnOrBefore(m.away_team, m.date)
               THEN Cardinality(RecordsOf(m)) = 1
               ELSE RecordsOf(m) = {}

\* Snapshot row r is the team's most recent one dated on or before date.
MostRecentSnapshot(r, team, date) ==
    /\ NormalizeName(r.nation_full_name) = team
    /\ r.rank_date >= Cutoff
    /\ r.rank_date <= date
    /\ \A d \in SnapshotDays(team) : d <= date => d <= r.rank_date

\* C9: in every record of the join, each side's rank and points are those of
\* that team's most recent snapshot dated on or before the match date.
C9_CarriedForward ==
    Joined =>
        \A k \in DOMAIN df_ranked :
            LET o == df_ranked[k]
            IN /\ \E i \in DOMAIN ranking_csv :
                     /\ MostRecentSnapshot(ranking_csv[i], o.home_team, o.date)
                     /\ o.rank_home = ranking_csv[i].rank
                     /\ o.points_home = ranking_csv[i].points
               /\ \E i \in DOMAIN ranking_csv :
                     /\ MostRecentSnapshot(ranking_csv[i], o.away_team, o.date)
                     /\ o.rank_away = ranking_csv[i].rank
                     /\ o.points_away = ranking_csv[i].points

\* C9 witness: a record whose home team has no snapshot on the match date
\* (the value is carried from an earlier day) and has a later snapshot, and
\* whose away team's value comes from a snapshot of the match date.
C9_Witness ==
    /\ Joined
    /\ \E k \in DOMAIN df_ranked :
          LET o == df_ranked[k]
          IN /\ o.date \notin SnapshotDays(o.home_team)
             /\ \E d \in SnapshotDays(o.home_team) : d > o.date
             /\ o.date \in SnapshotDays(o.away_team)
             /\ o.rank_home # o.rank_away

\* A match that reaches the join names a team the ranking table never names.
VocabularyMismatch ==
    /\ jdf # None
    /\ \E i \in DOMAIN jdf : \E team \in {jdf[i].home_team, jdf[i].away_team} :
          \A k \in DOMAIN ranking_csv :
              NormalizeName(ranking_csv[k].nation_full_name) # team

\* C10: when a match names a team the ranking table never names, the script
\* stops before it writes the joined table.
C10_LoudFailure == VocabularyMismatch => ranked_csv = None

====
